---------------------------- MODULE Spec2Model ----------------------------
(***************************************************************************)
(* A model of desertbit/fillpdf: the FDF and XFDF payload encoders, the    *)
(* field-dump parser of GetFields and the Fill orchestration (temporary    *)
(* directory, pdftk invocations, destination check, remove and copy).      *)
(*                                                                         *)
(* The repository holds four revisions of Fill, told apart by `variant`:   *)
(*   "xfdf"  src/fillpdf.go:62       Options{Overwrite,Cat,UseXFDF}    *)
(*   "meta"  src/fillpdf.go:281      Options{...,RemoveMetadata}           *)
(*   "opts"  src/unnamed/part_002:45 a mandatory Options value             *)
(*   "bool"  src/sample/main.go:59   a variadic overwrite bool             *)
(*                                                                         *)
(* Text is modelled byte by byte.  A Go string is a sequence of code       *)
(* points; the pseudo code point Trunc, allowed only as the last element,  *)
(* stands for an incomplete UTF-8 sequence at the end of the string.  A    *)
(* file's content is a sequence of bytes.                                  *)
(***************************************************************************)
EXTENDS Integers, Sequences, FiniteSets, TLC

(***************************************************************************)
(* Characters and bytes                                                    *)
(***************************************************************************)

\* The printable ASCII characters, 0x20 .. 0x7E, in code order (0x60, which
\* no literal of the program uses, is spelled out).
Chars ==
  <<" ", "!", "\"", "#", "$", "%", "&", "'", "(", ")", "*", "+", ",", "-",
    ".", "/", "0", "1", "2", "3", "4", "5", "6", "7", "8", "9", ":", ";",
    "<", "=", ">", "?", "@", "A", "B", "C", "D", "E", "F", "G", "H", "I",
    "J", "K", "L", "M", "N", "O", "P", "Q", "R", "S", "T", "U", "V", "W",
    "X", "Y", "Z", "[", "\\", "]", "^", "_", "backtick", "a", "b", "c", "d", "e",
    "f", "g", "h", "i", "j", "k", "l", "m", "n", "o", "p", "q", "r", "s",
    "t", "u", "v", "w", "x", "y", "z", "{", "|", "}", "~">>

Ord(ch) == 31 + (CHOOSE i \in 1..Len(Chars) : Chars[i] = ch)

\* The bytes of an ASCII literal, given as a tuple of its characters.
B(s) == [i \in 1..Len(s) |-> Ord(s[i])]

\* "\n"
LF == <<10>>

\* An incomplete UTF-8 sequence ending a string (here the lone lead byte
\* 0xE2): what utf8.DecodeRune reports as RuneError of width 1 while
\* utf8.FullRune is false.
Trunc == -1

RECURSIVE Cat(_)
Cat(ss) == IF ss = <<>> THEN <<>> ELSE Head(ss) \o Cat(Tail(ss))

\* Whether pat occurs in s at index i (1-based).
MatchAt(s, pat, i) ==
  /\ i >= 1
  /\ i + Len(pat) - 1 <= Len(s)
  /\ \A j \in 1..Len(pat) : s[i + j - 1] = pat[j]

\* The first index >= from where pat occurs in s, 0 when there is none.
IndexFrom(s, pat, from) ==
  LET hits == {i \in from..(Len(s) - Len(pat) + 1) : MatchAt(s, pat, i)}
  IN  IF hits = {} THEN 0 ELSE CHOOSE i \in hits : \A j \in hits : i <= j

Contains(s, pat) == IndexFrom(s, pat, 1) # 0

\* How often pat occurs in s (overlapping occurrences counted).
Occurrences(s, pat) ==
  Cardinality({i \in 1..(Len(s) - Len(pat) + 1) : MatchAt(s, pat, i)})

\* The UTF-8 bytes of one code point (unicode/utf8.EncodeRune); Go writes a
\* string's bytes as they are, so Trunc is written as its lone lead byte.
Utf8Rune(r) ==
  IF r = Trunc THEN <<226>>
  ELSE IF r < 128 THEN <<r>>
  ELSE IF r < 2048 THEN <<192 + (r \div 64), 128 + (r % 64)>>
  ELSE IF r < 65536
    THEN <<224 + (r \div 4096), 128 + ((r \div 64) % 64), 128 + (r % 64)>>
  ELSE <<240 + (r \div 262144), 128 + ((r \div 4096) % 64),
         128 + ((r \div 64) % 64), 128 + (r % 64)>>

\* The bytes of a Go string.
Utf8(str) == Cat([i \in 1..Len(str) |-> Utf8Rune(str[i])])

(***************************************************************************)
(* Forms                                                                   *)
(***************************************************************************)

\* The most entries a form of the model has.
MaxFields == 2

N_field_1 == B(<<"f", "i", "e", "l", "d", "_", "1">>)
N_field_2 == B(<<"f", "i", "e", "l", "d", "_", "2">>)
\* A name that holds the separator the entry line puts after the name.
N_sep == B(<<"a", ")", " ", "/", "V", " ", "(", "b">>)

Names == {N_field_1, N_field_2, N_sep}

V_Hello == B(<<"H", "e", "l", "l", "o">>)
V_World == B(<<"W", "o", "r", "l", "d">>)
V_empty == <<>>
\* "a(b)", ")" and "x\ny": parentheses and a newline.
V_paren == B(<<"a", "(", "b", ")">>)
V_close == B(<<")">>)
V_newline == B(<<"x">>) \o LF \o B(<<"y">>)
\* "Hello)>>\n<< /T (field_2) /V (World": ASCII, made of ')' , '(' and a
\* newline, it spells the end of one entry line and the start of the next.
V_inject ==
  V_Hello \o B(<<")", ">", ">">>) \o LF \o B(<<"<", "<", " ", "/", "T", " ", "(">>)
    \o N_field_2 \o B(<<")", " ", "/", "V", " ", "(">>) \o V_World
\* "a<b&\"c": characters XML escapes.
V_xml == B(<<"a", "<", "b", "&", "\"", "c">>)
\* "W\u00F6rld": o with diaeresis, a Latin-1 character that is not ASCII.
V_latin == B(<<"W">>) \o <<246>> \o B(<<"r", "l", "d">>)
\* U+20AC, the euro sign: a character outside Latin-1.
V_euro == <<8364>>
\* U+FFFF: outside Latin-1 and not a character XML allows.
V_nonchar == <<65535>>
\* "ab" followed by an incomplete UTF-8 sequence.
V_trunc == B(<<"a", "b">>) \o <<Trunc>>

Values ==
  {V_Hello, V_World, V_empty, V_paren, V_close, V_newline, V_inject, V_xml,
   V_latin, V_euro, V_nonchar, V_trunc}

\* Form: a map from field names to values (fmt's %v of a string value is the
\* string itself).
FormsOver(names, values) ==
  UNION {[ks -> values] : ks \in {k \in SUBSET names : Cardinality(k) <= MaxFields}}

Forms == FormsOver(Names, Values)

\* The orders in which a range over the map may visit its keys.
Orders(form) ==
  LET n == Cardinality(DOMAIN form)
  IN  {o \in [1..n -> DOMAIN form] : \A i, j \in 1..n : o[i] = o[j] => i = j}

IsAscii(str) == \A i \in 1..Len(str) : str[i] >= 0 /\ str[i] < 128
IsLatin1(str) == \A i \in 1..Len(str) : str[i] >= 0 /\ str[i] < 256

(***************************************************************************)
(* The FDF encoder                                                         *)
(***************************************************************************)

fdfHeader ==
  Cat(<<B(<<"%", "F", "D", "F", "-", "1", ".", "2">>), LF,
            B(<<"%", ",", ",", "o", "e", "\"">>), LF,
            B(<<"1", " ", "0", " ", "o", "b", "j">>), LF,
            B(<<"<", "<">>), LF,
            B(<<"/", "F", "D", "F", " ", "<", "<", " ", "/", "F", "i", "e",
                "l", "d", "s", " ", "[">>)>>)

fdfFooter ==
  Cat(<<B(<<"]">>), LF, B(<<">", ">">>), LF, B(<<">", ">">>), LF,
            B(<<"e", "n", "d", "o", "b", "j">>), LF,
            B(<<"t", "r", "a", "i", "l", "e", "r">>), LF,
            B(<<"<", "<">>), LF,
            B(<<"/", "R", "o", "o", "t", " ", "1", " ", "0", " ", "R">>), LF,
            B(<<">", ">">>), LF,
            B(<<"%", "%", "E", "O", "F">>)>>)

\* latin1Encoder.String: every code point below 256 becomes the byte of that
\* value and every other one the substitute byte 0x1A (the ISO8859_1 charmap
\* of github.com/gdamore/encoding substitutes, it does not fail).  An
\* incomplete UTF-8 sequence at the end of the string is an error (ErrShortSrc)
\* in the releases that test atEOF there and is substituted in the others:
\* `strict` is which.
Latin1String(str, strict) ==
  IF strict /\ Len(str) > 0 /\ str[Len(str)] = Trunc
    THEN [err |-> TRUE, bytes |-> <<>>]
    ELSE [err |-> FALSE,
          bytes |-> [i \in 1..Len(str) |->
                       IF str[i] >= 0 /\ str[i] < 256 THEN str[i] ELSE 26]]

\* The entry line with its two arguments exchanged.
FdfLine_swapped(keyBytes, valueBytes) ==
  Cat(<<B(<<"<", "<", " ", "/", "T", " ", "(">>), valueBytes,
        B(<<")", " ", "/", "V", " ", "(">>), keyBytes,
        B(<<")", ">", ">">>), LF>>)

\* fmt.Fprintf(w, "<< /T (%s) /V (%s)>>\n", key, valueStr)
FdfLine(keyBytes, valueBytes) ==
  Cat(<<B(<<"<", "<", " ", "/", "T", " ", "(">>), keyBytes,
            B(<<")", " ", "/", "V", " ", "(">>), valueBytes,
            B(<<")", ">", ">">>), LF>>)

\* One pass of the loop over the form: the entry written for key, or the
\* encoding error.  kind "latin1" is createFdfFile of src/fillpdf.go, kind
\* "plain" that of the revisions which write the value with %v.
FdfEntry(kind, key, value, strict) ==
  IF kind = "latin1"
    THEN LET v == Latin1String(value, strict)
         IN  IF v.err THEN [err |-> TRUE, bytes |-> <<>>]
             ELSE [err |-> FALSE, bytes |-> FdfLine(Utf8(key), v.bytes)]
    ELSE [err |-> FALSE, bytes |-> FdfLine(Utf8(key), Utf8(value))]

\* The loop leaving out the entry of the last key it visits.
RECURSIVE FdfEntries_dropLast(_, _, _, _)
FdfEntries_dropLast(kind, form, order, strict) ==
  IF Len(order) <= 1 THEN [err |-> FALSE, bytes |-> <<>>]
  ELSE LET e == FdfEntry(kind, Head(order), form[Head(order)], strict)
           rest == FdfEntries_dropLast(kind, form, Tail(order), strict)
       IN  IF e.err \/ rest.err THEN [err |-> TRUE, bytes |-> <<>>]
           ELSE [err |-> FALSE, bytes |-> e.bytes \o rest.bytes]

\* The loop over the form, keys visited in `order`: what it has written into
\* the buffered writer, or the error it returned with.
RECURSIVE FdfEntries(_, _, _, _)
FdfEntries(kind, form, order, strict) ==
  IF order = <<>> THEN [err |-> FALSE, bytes |-> <<>>]
  ELSE LET e == FdfEntry(kind, Head(order), form[Head(order)], strict)
           rest == FdfEntries(kind, form, Tail(order), strict)
       IN  IF e.err \/ rest.err THEN [err |-> TRUE, bytes |-> <<>>]
           ELSE [err |-> FALSE, bytes |-> e.bytes \o rest.bytes]

\* createFdfFile: os.Create, header, entries, footer, Flush.  Everything goes
\* through a bufio.Writer, so a call that returns early on an encoding error
\* leaves the created file empty (payloads here stay below the 4096 byte
\* buffer).  The result: the error returned ("" for nil), whether the file
\* was created, and the file's content.
createFdfFile(kind, form, order, strict, createOK) ==
  IF ~createOK THEN [err |-> "create", created |-> FALSE, data |-> <<>>]
  ELSE LET es == FdfEntries(kind, form, order, strict)
       IN  IF es.err
             THEN [err |-> "failed to convert string to Latin-1",
                   created |-> TRUE, data |-> <<>>]
             ELSE [err |-> "", created |-> TRUE,
                   data |-> Cat(<<fdfHeader, LF, es.bytes, fdfFooter, LF>>)]

(***************************************************************************)
(* The XFDF encoder                                                        *)
(***************************************************************************)

xmlHeader ==
  B(<<"<", "?", "x", "m", "l", " ", "v", "e", "r", "s", "i", "o", "n", "=",
      "\"", "1", ".", "0", "\"", " ", "e", "n", "c", "o", "d", "i", "n", "g",
      "=", "\"", "U", "T", "F", "-", "8", "\"", "?", ">">>)

xfdfNS ==
  B(<<"h", "t", "t", "p", ":", "/", "/", "n", "s", ".", "a", "d", "o", "b",
      "e", ".", "c", "o", "m", "/", "x", "f", "d", "f", "/">>)

xfdfXMLSpace == B(<<"p", "r", "e", "s", "e", "r", "v", "e">>)

\* The attribute names the struct tags of XFDF give its two string fields.
XFDF_XMLNS_attr == B(<<"x", "m", "l", "d", "n">>)
XFDF_XMLSpace_attr == B(<<"x", "m", "l", ":", "s", "p", "a", "c", "e">>)

\* The characters XML 1.0 allows (encoding/xml isInCharacterRange).
InXmlRange(r) ==
  \/ r = 9 \/ r = 10 \/ r = 13
  \/ (r >= 32 /\ r <= 55295)
  \/ (r >= 57344 /\ r <= 65533)
  \/ (r >= 65536 /\ r <= 1114111)

\* encoding/xml EscapeText, which xml.Marshal applies to character data and
\* attribute values: the five markup characters and tab, newline and return
\* become references, and what is no XML character becomes U+FFFD.
EscapeRune(r) ==
  CASE r = 34 -> B(<<"&", "#", "3", "4", ";">>)
    [] r = 39 -> B(<<"&", "#", "3", "9", ";">>)
    [] r = 38 -> B(<<"&", "a", "m", "p", ";">>)
    [] r = 60 -> B(<<"&", "l", "t", ";">>)
    [] r = 62 -> B(<<"&", "g", "t", ";">>)
    [] r = 9 -> B(<<"&", "#", "x", "9", ";">>)
    [] r = 10 -> B(<<"&", "#", "x", "A", ";">>)
    [] r = 13 -> B(<<"&", "#", "x", "D", ";">>)
    [] OTHER -> IF r = Trunc \/ ~InXmlRange(r) THEN <<239, 191, 189>>
                ELSE Utf8Rune(r)

EscapeText(str) == Cat([i \in 1..Len(str) |-> EscapeRune(str[i])])

\* One Field{Name, Value} marshalled: the name as attribute `name`, the value
\* as child element `value`.
XfdfField(key, value) ==
  Cat(<<B(<<"<", "f", "i", "e", "l", "d", " ", "n", "a", "m", "e", "=", "\"">>),
        EscapeText(key),
        B(<<"\"", ">", "<", "v", "a", "l", "u", "e", ">">>),
        EscapeText(value),
        B(<<"<", "/", "v", "a", "l", "u", "e", ">", "<", "/", "f", "i", "e",
            "l", "d", ">">>)>>)

\* xml.Marshal(xfdfStruct): the root element with its two attributes, the
\* fields element and one field element per appended Field.
XfdfMarshal(form, order) ==
  Cat(<<B(<<"<", "x", "f", "d", "f">>),
        B(<<" ">>), XFDF_XMLNS_attr, B(<<"=", "\"">>), EscapeText(xfdfNS),
        B(<<"\"">>),
        B(<<" ">>), XFDF_XMLSpace_attr, B(<<"=", "\"">>),
        EscapeText(xfdfXMLSpace), B(<<"\"">>),
        B(<<">">>),
        B(<<"<", "f", "i", "e", "l", "d", "s", ">">>),
        Cat([i \in 1..Len(order) |-> XfdfField(order[i], form[order[i]])]),
        B(<<"<", "/", "f", "i", "e", "l", "d", "s", ">">>),
        B(<<"<", "/", "x", "f", "d", "f", ">">>)>>)

\* createXFDFFile: os.Create, the XML prolog, the marshalled struct, Flush.
createXFDFFile(form, order, createOK) ==
  IF ~createOK THEN [err |-> "create", created |-> FALSE, data |-> <<>>]
  ELSE [err |-> "", created |-> TRUE,
        data |-> Cat(<<xmlHeader, LF, XfdfMarshal(form, order), LF>>)]

(***************************************************************************)
(* Reading a payload back                                                  *)
(***************************************************************************)

T_open == B(<<"<", "<", " ", "/", "T", " ", "(">>)
T_sep == B(<<")", " ", "/", "V", " ", "(">>)
T_close == B(<<")", ">", ">">>) \o LF

BadPairs == [ok |-> FALSE, pairs |-> <<>>]

\* The `/T (...) /V (...)` pairs of the text from index i on: each entry is
\* "<< /T (", the name up to the next ") /V (", the value up to the next
\* ")>>" that ends a line.  Names and values may hold any character,
\* newlines included.
RECURSIVE FdfPairs(_, _)
FdfPairs(body, i) ==
  IF i > Len(body) THEN [ok |-> TRUE, pairs |-> <<>>]
  ELSE IF ~MatchAt(body, T_open, i) THEN BadPairs
  ELSE
    LET ns == i + Len(T_open)
        ne == IndexFrom(body, T_sep, ns)
        vs == ne + Len(T_sep)
        ve == IndexFrom(body, T_close, vs)
    IN  IF ne = 0 \/ ve = 0 THEN BadPairs
        ELSE LET rest == FdfPairs(body, ve + Len(T_close))
             IN  IF ~rest.ok THEN BadPairs
                 ELSE [ok |-> TRUE,
                       pairs |-> <<[name |-> SubSeq(body, ns, ne - 1),
                                    value |-> SubSeq(body, vs, ve - 1)]>>
                                 \o rest.pairs]

\* The pairs of an FDF payload: what lies between header and footer.
ReadFdf(data) ==
  LET h == fdfHeader \o LF
      f == fdfFooter \o LF
  IN  IF /\ Len(data) >= Len(h) + Len(f)
         /\ MatchAt(data, h, 1)
         /\ MatchAt(data, f, Len(data) - Len(f) + 1)
        THEN FdfPairs(SubSeq(data, Len(h) + 1, Len(data) - Len(f)), 1)
        ELSE BadPairs

\* The text an XML parser gives for escaped character data: the references
\* EscapeText writes are replaced by their characters.
RECURSIVE XmlUnescape(_)
XmlUnescape(bs) ==
  IF bs = <<>> THEN <<>>
  ELSE IF Head(bs) # 38 THEN <<Head(bs)>> \o XmlUnescape(Tail(bs))
  ELSE
    LET semi == IndexFrom(bs, B(<<";">>), 1)
        ref == SubSeq(bs, 1, semi)
        ch == CASE ref = B(<<"&", "#", "3", "4", ";">>) -> <<34>>
                [] ref = B(<<"&", "#", "3", "9", ";">>) -> <<39>>
                [] ref = B(<<"&", "a", "m", "p", ";">>) -> <<38>>
                [] ref = B(<<"&", "l", "t", ";">>) -> <<60>>
                [] ref = B(<<"&", "g", "t", ";">>) -> <<62>>
                [] ref = B(<<"&", "#", "x", "9", ";">>) -> <<9>>
                [] ref = B(<<"&", "#", "x", "A", ";">>) -> <<10>>
                [] ref = B(<<"&", "#", "x", "D", ";">>) -> <<13>>
                [] OTHER -> ref
    IN  IF semi = 0 THEN bs
        ELSE ch \o XmlUnescape(SubSeq(bs, semi + 1, Len(bs)))

X_field == B(<<"<", "f", "i", "e", "l", "d", " ", "n", "a", "m", "e", "=", "\"">>)
X_value == B(<<"\"", ">", "<", "v", "a", "l", "u", "e", ">">>)
X_end ==
  B(<<"<", "/", "v", "a", "l", "u", "e", ">", "<", "/", "f", "i", "e", "l", "d", ">">>)
X_fields == B(<<"<", "f", "i", "e", "l", "d", "s", ">">>)
X_tail ==
  B(<<"<", "/", "f", "i", "e", "l", "d", "s", ">", "<", "/", "x", "f", "d",
      "f", ">">>) \o LF

\* The field elements from index i on, up to the closing tags.
RECURSIVE XfdfPairs(_, _)
XfdfPairs(data, i) ==
  IF MatchAt(data, X_tail, i) /\ i + Len(X_tail) = Len(data) + 1
    THEN [ok |-> TRUE, pairs |-> <<>>]
  ELSE IF ~MatchAt(data, X_field, i) THEN BadPairs
  ELSE
    LET ns == i + Len(X_field)
        ne == IndexFrom(data, X_value, ns)
        vs == ne + Len(X_value)
        ve == IndexFrom(data, X_end, vs)
    IN  IF ne = 0 \/ ve = 0 THEN BadPairs
        ELSE LET rest == XfdfPairs(data, ve + Len(X_end))
             IN  IF ~rest.ok THEN BadPairs
                 ELSE [ok |-> TRUE,
                       pairs |-> <<[name |-> XmlUnescape(SubSeq(data, ns, ne - 1)),
                                    value |-> XmlUnescape(SubSeq(data, vs, ve - 1))]>>
                                 \o rest.pairs]

\* The name/value pairs of the field elements of an XFDF payload.
ReadXfdf(data) ==
  LET at == IndexFrom(data, X_fields, 1)
  IN  IF at = 0 THEN BadPairs ELSE XfdfPairs(data, at + Len(X_fields))

\* The name-to-text mapping of a form, as the pairs of its UTF-8 texts.
FormPairs(form) ==
  {[name |-> Utf8(k), value |-> Utf8(form[k])] : k \in DOMAIN form}

\* Whether what was read is exactly the form: every entry once, none else.
ReadsAs(read, form) ==
  /\ read.ok
  /\ Len(read.pairs) = Cardinality(DOMAIN form)
  /\ {read.pairs[i] : i \in 1..Len(read.pairs)} = FormPairs(form)

(***************************************************************************)
(* The encoders on their own: a form is handed to one of them              *)
(***************************************************************************)

VARIABLES
  encForm,  \* the Form passed to the encoder
  encKind,  \* "" before the call, then "latin1", "plain" or "xfdf"
  encRes    \* the encoder's result: error, whether the file exists, content

encVars == <<encForm, encKind, encRes>>

EncIdle == [err |-> "", created |-> FALSE, data |-> <<>>]

EncStart ==
  /\ encForm \in Forms
  /\ encKind = ""
  /\ encRes = EncIdle

\* createFdfFile of src/fillpdf.go (values transliterated to Latin-1).
EncFdfLatin1 ==
  /\ encKind = ""
  /\ \E order \in Orders(encForm), strict \in BOOLEAN, createOK \in BOOLEAN :
       encRes' = createFdfFile("latin1", encForm, order, strict, createOK)
  /\ encKind' = "latin1"
  /\ UNCHANGED encForm

\* createFdfFile / createFDFFile of the revisions that write values as is.
EncFdfPlain ==
  /\ encKind = ""
  /\ \E order \in Orders(encForm), createOK \in BOOLEAN :
       encRes' = createFdfFile("plain", encForm, order, FALSE, createOK)
  /\ encKind' = "plain"
  /\ UNCHANGED encForm

EncXfdf ==
  /\ encKind = ""
  /\ \E order \in Orders(encForm), createOK \in BOOLEAN :
       encRes' = createXFDFFile(encForm, order, createOK)
  /\ encKind' = "xfdf"
  /\ UNCHANGED encForm

EncStep == EncFdfLatin1 \/ EncFdfPlain \/ EncXfdf

(***************************************************************************)
(* Claims about the encoders (checked under SpecEnc)                       *)
(***************************************************************************)

FdfDone == encKind \in {"latin1", "plain"} /\ encRes.err = ""

\* The text the entry line carries for a value: its Latin-1 bytes in the
\* transliterating encoder, its UTF-8 bytes in the others.
C6_ValueText(kind, v) ==
  IF kind = "latin1" THEN Latin1String(v, FALSE).bytes ELSE Utf8(v)

C6_Line(kind, k, v) ==
  Cat(<<T_open, Utf8(k), T_sep, C6_ValueText(kind, v), T_close>>)

F_example == [k \in {N_field_1, N_field_2} |->
                 IF k = N_field_1 THEN V_Hello ELSE V_World]

AsciiForm(form) ==
  \A k \in DOMAIN form : IsAscii(k) /\ IsAscii(form[k])

\* C7 as stated: for every form with ASCII-only names and values (values with
\* '(', ')' or a newline included), the pairs extracted from the FDF payload
\* are exactly the form's name-to-text mapping.
C7_RoundTripAllAscii ==
  (FdfDone /\ AsciiForm(encForm)) => ReadsAs(ReadFdf(encRes.data), encForm)

\* The forms whose entry lines cannot be mistaken: no name holds the
\* separator ") /V (" and no value holds ")>>" followed by a newline.
C7_Unambiguous(form) ==
  \A k \in DOMAIN form : ~Contains(k, T_sep) /\ ~Contains(form[k], T_close)

\* C7, amended: for every form with ASCII-only names and values in which no
\* name holds ") /V (" and no value holds ")>>" followed by a newline, the
\* pairs extracted from the FDF payload are exactly the form's mapping.
C7_RoundTripUnambiguous ==
  (FdfDone /\ AsciiForm(encForm) /\ C7_Unambiguous(encForm))
    => ReadsAs(ReadFdf(encRes.data), encForm)

C7_Witness ==
  /\ FdfDone
  /\ Cardinality(DOMAIN encForm) = 2
  /\ \E k \in DOMAIN encForm : encForm[k] = V_paren
  /\ \E k \in DOMAIN encForm : encForm[k] = V_newline
  /\ ReadsAs(ReadFdf(encRes.data), encForm)

HasNonLatin1(form) ==
  \E k \in DOMAIN form : \E i \in 1..Len(form[k]) : form[k][i] >= 256

\* C8 as stated: for a form with a value holding a character outside Latin-1,
\* FDF encoding fails with the encoding error and leaves no payload, and XFDF
\* encoding succeeds with a payload whose values read back unchanged.
C8_NonLatin1 ==
  (HasNonLatin1(encForm) /\ encRes.created) =>
    /\ encKind \in {"latin1", "plain"} =>
         /\ encRes.err = "failed to convert string to Latin-1"
         /\ encRes.data = <<>>
    /\ encKind = "xfdf" =>
         /\ encRes.err = ""
         /\ ReadsAs(ReadXfdf(encRes.data), encForm)

\* C9 as stated: the XFDF payload is the UTF-8 prolog and one root element
\* xfdf carrying xmlns="http://ns.adobe.com/xfdf/" and xml:space="preserve",
\* which holds one fields element with one field per entry, its name
\* attribute the field name and its value child the value's text.
C9_XfdfDocument ==
  (encKind = "xfdf" /\ encRes.err = "") =>
    LET d == encRes.data
        root == Cat(<<xmlHeader, LF, B(<<"<", "x", "f", "d", "f", " ">>)>>)
        open == IndexFrom(d, B(<<">">>), Len(root))
        tag == SubSeq(d, Len(root), open)
    IN  /\ MatchAt(d, root, 1)
        /\ Contains(tag, Cat(<<B(<<" ", "x", "m", "l", "n", "s", "=", "\"">>),
                               xfdfNS, B(<<"\"">>)>>))
        /\ Contains(tag, Cat(<<B(<<" ", "x", "m", "l", ":", "s", "p", "a", "c",
                                   "e", "=", "\"">>),
                               xfdfXMLSpace, B(<<"\"">>)>>))
        /\ Occurrences(d, X_fields) = 1
        /\ Len(ReadXfdf(d).pairs) = Cardinality(DOMAIN encForm)
        /\ ReadsAs(ReadXfdf(d), encForm)

(***************************************************************************)
(* The field-dump parser of GetFields                                      *)
(***************************************************************************)

\* strings.Split(s, sep) for a non-empty sep: the pieces between the
\* occurrences of sep, found left to right; one piece when there is none.
RECURSIVE Split(_, _)
Split(s, sep) ==
  LET i == IndexFrom(s, sep, 1)
  IN  IF i = 0 THEN <<s>>
      ELSE <<SubSeq(s, 1, i - 1)>> \o Split(SubSeq(s, i + Len(sep), Len(s)), sep)

\* strings.ToLower, on the ASCII letters.
ToLower(s) == [i \in 1..Len(s) |-> IF s[i] >= 65 /\ s[i] <= 90 THEN s[i] + 32 ELSE s[i]]

K_FieldType == B(<<"F", "i", "e", "l", "d", "T", "y", "p", "e">>)
K_FieldName == B(<<"F", "i", "e", "l", "d", "N", "a", "m", "e">>)
K_FieldNameAlt == B(<<"F", "i", "e", "l", "d", "N", "a", "m", "e", "A", "l", "t">>)
K_FieldFlags == B(<<"F", "i", "e", "l", "d", "F", "l", "a", "g", "s">>)

\* Field{}: the zero value.
EmptyField == [Type |-> <<>>, Name |-> <<>>, AltName |-> <<>>, Flags |-> <<>>]

\* The body of the loop over a block's lines: props := Split(line, ": "),
\* skipped unless it has two elements, then the switch on props[0].
ApplyLine(field, line) ==
  LET props == Split(line, B(<<":", " ">>))
  IN  IF Len(props) # 2 THEN field
      ELSE CASE props[1] = K_FieldType -> [field EXCEPT !.Type = ToLower(props[2])]
             [] props[1] = K_FieldName -> [field EXCEPT !.Name = props[2]]
             [] props[1] = K_FieldNameAlt -> [field EXCEPT !.AltName = props[2]]
             [] props[1] = K_FieldFlags -> [field EXCEPT !.Flags = props[2]]
             [] OTHER -> field

RECURSIVE ApplyLines(_, _)
ApplyLines(field, lines) ==
  IF lines = <<>> THEN field
  ELSE ApplyLines(ApplyLine(field, Head(lines)), Tail(lines))

\* One pass of the loop over fieldsData: nothing for a block that splits into
\* two pieces or fewer, else the Field built from its lines.
ParseBlock(f) ==
  LET lines == Split(f, LF)
  IN  IF Len(lines) <= 2 THEN <<>> ELSE <<ApplyLines(EmptyField, lines)>>

RECURSIVE ParseBlocks(_)
ParseBlocks(blocks) ==
  IF blocks = <<>> THEN <<>>
  ELSE ParseBlock(Head(blocks)) \o ParseBlocks(Tail(blocks))

\* GetFields from strings.Split(output, "---\n") on.
ParseFields(output) == ParseBlocks(Split(output, B(<<"-", "-", "-">>) \o LF))

\* The dump texts of the model: up to MaxDumpLines lines, each one of the
\* lines below, the last one with or without its newline.
MaxDumpLines == 4

L_type == B(<<"F", "i", "e", "l", "d", "T", "y", "p", "e", ":", " ", "T", "e", "x", "t">>)
L_name ==
  B(<<"F", "i", "e", "l", "d", "N", "a", "m", "e", ":", " ", "f", "i", "e",
      "l", "d", "_", "1">>)
L_flags == B(<<"F", "i", "e", "l", "d", "F", "l", "a", "g", "s", ":", " ", "0">>)
L_alt ==
  B(<<"F", "i", "e", "l", "d", "N", "a", "m", "e", "A", "l", "t", ":", " ",
      "D", "a", "t", "e", ":", " ", "s", "t", "a", "r", "t">>)
L_unknown ==
  B(<<"F", "i", "e", "l", "d", "J", "u", "s", "t", "i", "f", "i", "c", "a",
      "t", "i", "o", "n", ":", " ", "L", "e", "f", "t">>)
L_plain ==
  B(<<"n", "o", " ", "s", "e", "p", "a", "r", "a", "t", "o", "r", " ", "h",
      "e", "r", "e">>)
L_sep == B(<<"-", "-", "-">>)

DumpLines == {L_type, L_name, L_flags, L_alt, L_unknown, L_plain, L_sep}

\* A dump: its lines, and whether the last line ends with a newline.
Dumps ==
  {[lines |-> <<>>, nl |-> TRUE]} \cup
  UNION {[lines : [1..n -> DumpLines], nl : BOOLEAN] : n \in 1..MaxDumpLines}

NoDump == [lines |-> <<>>, nl |-> FALSE]

\* The text of a dump: its lines joined by newlines.
DumpText(d) ==
  Cat([i \in 1..Len(d.lines) |->
         d.lines[i] \o (IF i < Len(d.lines) \/ d.nl THEN LF ELSE <<>>)])

(***************************************************************************)
(* Fill and GetFields: state                                               *)
(***************************************************************************)

Calls == {"c1", "c2"}
Dests == {"d1", "d2"}
Variants == {"xfdf", "meta", "opts", "bool"}

VARIABLES
  variant,      \* the revision of Fill that is built
  srcStat,      \* os.Stat of the form PDF: "present", "missing" or "staterr"
  pdftkOnPath,  \* whether exec.LookPath("pdftk") finds the tool
  kind,         \* per call: "Fill", "GetFields" or "idle" (no such call)
  args,         \* per call: the arguments passed
  dest0,        \* per call: the destination file when the call started
  pc,           \* per call: the statement the call is at
  ret,          \* per call: "" while running, then "nil" or the error
  fs,           \* the file system: path -> file, for the paths that exist
  log,          \* per call: the payload encodings, pdftk runs and
                \* destination operations it has made, in order
  deferred,     \* per call: whether the deferred os.RemoveAll is registered
  dump,         \* per call: the text pdftk dump_data_fields printed
  fields,       \* per call: the []Field GetFields returns
  tmpName       \* per call: the name ioutil.TempDir gave its directory, ""
                \* before

envVars == <<variant, srcStat, pdftkOnPath, kind, args, dest0>>
runVars == <<pc, ret, fs, log, deferred, dump, fields, tmpName>>
vars == <<envVars, runVars, encVars>>

\* Paths.  A destination; the directory ioutil.TempDir made for a call, under
\* the name it drew; a file in that directory; a file beside it in the
\* directory of temporary files, its name starting with the directory's.
TmpNames == {"t1", "t2"}
DestPath(d) == <<"dest", d>>
TmpDirNamed(n) == <<"tmpdir", n>>
TmpDir(c) == TmpDirNamed(tmpName[c])
TmpFile(c, name) == <<"tmpdir", tmpName[c], name>>
TmpBeside(c, name) == <<"tmp", tmpName[c], name>>

File(k, by, data) == [kind |-> k, by |-> by, data |-> data]
OrigFile == File("orig", "", <<>>)
Absent == File("absent", "", <<>>)

Exists(f, path) == path \in DOMAIN f
Write(f, path, file) ==
  [q \in DOMAIN f \cup {path} |-> IF q = path THEN file ELSE f[q]]
Remove(f, path) == [q \in DOMAIN f \ {path} |-> f[q]]
At(f, path) == IF Exists(f, path) THEN f[path] ELSE Absent

\* os.RemoveAll(tmpDir): the directory and everything in it.
RemoveAll(f, c) ==
  [q \in {x \in DOMAIN f : ~(x[1] = "tmpdir" /\ x[2] = tmpName[c])} |-> f[q]]

\* The paths that hold what a call has made and are not its destination.
TempPaths(f, c) == {x \in DOMAIN f : x[1] \in {"tmpdir", "tmp"} /\ f[x].by = c}

Options(o, fl, x, m) ==
  [Overwrite |-> o, Flatten |-> fl, UseXFDF |-> x, RemoveMetadata |-> m]

\* defaultOptions of src/fillpdf.go:52.
defaultOptions_xfdf == Options(TRUE, TRUE, TRUE, FALSE)
\* defaultOptions of src/fillpdf.go:271.
defaultOptions_meta == Options(TRUE, TRUE, FALSE, FALSE)

\* The caller's struct laid over the defaults field by field, a field left
\* at its zero value keeping the default.
EffectiveOptions_merged(v, a) ==
  LET def == CASE v = "xfdf" -> defaultOptions_xfdf
               [] v = "meta" -> defaultOptions_meta
               [] OTHER -> Options(FALSE, FALSE, FALSE, FALSE)
  IN  IF v = "bool"
        THEN Options(a.supplied /\ a.opts.Overwrite, TRUE, FALSE, FALSE)
      ELSE IF ~a.supplied THEN def
      ELSE Options(a.opts.Overwrite \/ def.Overwrite,
                   a.opts.Flatten \/ def.Flatten,
                   a.opts.UseXFDF \/ def.UseXFDF,
                   a.opts.RemoveMetadata \/ def.RemoveMetadata)

\* The options a call runs with.  The two revisions with variadic Options
\* take the caller's struct whole when there is one and the defaults
\* otherwise; "opts" takes the struct it is given; "bool" overwrites when its
\* variadic bool is given and true, always flattens and knows no other option.
EffectiveOptions(v, a) ==
  CASE v = "xfdf" -> IF a.supplied THEN a.opts ELSE defaultOptions_xfdf
    [] v = "meta" -> IF a.supplied THEN a.opts ELSE defaultOptions_meta
    [] v = "opts" -> a.opts
    [] v = "bool" -> Options(a.supplied /\ a.opts.Overwrite, TRUE, FALSE, FALSE)

Eff(c) == EffectiveOptions(variant, args[c])

\* The options a caller can pass to each revision.
OptionsOf(v) ==
  CASE v = "xfdf" -> {Options(o, fl, x, FALSE) : o \in BOOLEAN, fl \in BOOLEAN, x \in BOOLEAN}
    [] v = "meta" -> {Options(o, fl, FALSE, m) : o \in BOOLEAN, fl \in BOOLEAN, m \in BOOLEAN}
    [] v = "opts" -> {Options(o, fl, FALSE, FALSE) : o \in BOOLEAN, fl \in BOOLEAN}
    [] v = "bool" -> {Options(o, FALSE, FALSE, FALSE) : o \in BOOLEAN}

NoOptions == Options(FALSE, FALSE, FALSE, FALSE)

\* The forms Fill is called with: the two-field example, a value outside
\* Latin-1, a value ending in an incomplete UTF-8 sequence.
F_euro == [k \in {N_field_1} |-> V_euro]
F_trunc == [k \in {N_field_1} |-> V_trunc]
FillForms == {F_example, F_euro, F_trunc}

ArgsOf(v, dests) ==
  {[supplied |-> TRUE, opts |-> o, dest |-> d, form |-> f] :
     o \in OptionsOf(v), d \in dests, f \in FillForms}
  \cup (IF v = "opts" THEN {}
        ELSE {[supplied |-> FALSE, opts |-> NoOptions, dest |-> d, form |-> f] :
                d \in dests, f \in FillForms})

IdleArgs == [supplied |-> FALSE, opts |-> NoOptions, dest |-> "d1", form |-> <<>>]

\* Whether the payload is XFDF, and which createFdfFile the revision has.
UsesXFDF(c) == variant = "xfdf" /\ Eff(c).UseXFDF
FdfKind(v) == IF v \in {"xfdf", "meta"} THEN "latin1" ELSE "plain"

PayloadName(c) ==
  IF variant = "bool" THEN "input.fdf"
  ELSE IF UsesXFDF(c) THEN "data.xfdf" ELSE "data.fdf"

\* The file Fill copies to the destination.
OutputFile(c) ==
  IF variant = "bool" THEN TmpFile(c, "final-output.pdf")
  ELSE IF variant = "meta" /\ Eff(c).RemoveMetadata
    THEN TmpBeside(c, "output2.pdf")
    ELSE TmpFile(c, "output.pdf")

\* The state when the calls start: calls[c] is "Fill", "GetFields" or "idle".
InitWith(calls, dests, existing) ==
  /\ variant \in Variants
  /\ srcStat \in {"present", "missing", "staterr"}
  /\ pdftkOnPath \in BOOLEAN
  /\ kind = calls
  /\ args \in {a \in [Calls -> ArgsOf(variant, dests) \cup {IdleArgs}] :
                 \A c \in Calls : (a[c] = IdleArgs) <=> (calls[c] # "Fill")}
  /\ fs \in {[q \in {DestPath(d) : d \in e} |-> OrigFile] : e \in SUBSET existing}
  /\ dest0 = [c \in Calls |-> At(fs, DestPath(args[c].dest))]
  /\ pc = [c \in Calls |-> CASE calls[c] = "Fill" -> "abs"
                             [] calls[c] = "GetFields" -> "gAbs"
                             [] OTHER -> "idle"]
  /\ ret = [c \in Calls |-> ""]
  /\ log = [c \in Calls |-> <<>>]
  /\ deferred = [c \in Calls |-> FALSE]
  /\ dump = [c \in Calls |-> NoDump]
  /\ fields = [c \in Calls |-> <<>>]
  /\ tmpName = [c \in Calls |-> ""]

EncUnused == encForm = <<>> /\ encKind = "" /\ encRes = EncIdle

OneCall(k) == [c \in Calls |-> IF c = "c1" THEN k ELSE "idle"]

\* One call: Fill of any revision with destination d1 present or absent, or
\* GetFields (which no revision of Fill bears on: one is fixed).
Init ==
  /\ \/ InitWith(OneCall("Fill"), {"d1"}, {"d1"})
     \/ InitWith(OneCall("GetFields"), {"d1"}, {}) /\ variant = "meta"
  /\ EncUnused

(***************************************************************************)
(* Fill: one action per statement that can return or touch the outside     *)
(***************************************************************************)

Goto(c, l) == pc' = [pc EXCEPT ![c] = l] /\ ret' = ret

\* A return with error err ("nil" for none) from file system f: the deferred
\* function, when registered, removes the temporary directory.
Return(c, err, f) ==
  /\ pc' = [pc EXCEPT ![c] = "done"]
  /\ ret' = [ret EXCEPT ![c] = err]
  /\ fs' = IF deferred[c] THEN RemoveAll(f, c) ELSE f

Event(op, ok, a) == [op |-> op, ok |-> ok, args |-> a]
Logged(c, e) == log' = [log EXCEPT ![c] = Append(@, e)]

GetFieldsVars == <<dump, fields>>

\* filepath.Abs of the form and destination paths.
FillAbs(c) ==
  /\ kind[c] = "Fill" /\ pc[c] = "abs"
  /\ \E ok \in BOOLEAN :
       IF ok THEN Goto(c, "checkForm") /\ fs' = fs
       ELSE Return(c, "failed to create the absolute path", fs)
  /\ UNCHANGED <<log, deferred, GetFieldsVars, envVars, encVars, tmpName>>

\* The check of the form file that lets a missing file pass.
FillCheckForm_passesMissing(c) ==
  /\ kind[c] = "Fill" /\ pc[c] = "checkForm"
  /\ CASE srcStat = "staterr" ->
            Return(c, "failed to check if form PDF file exists", fs)
       [] OTHER -> Goto(c, "lookPath") /\ fs' = fs
  /\ UNCHANGED <<log, deferred, GetFieldsVars, envVars, encVars, tmpName>>

\* exists(formPDFFile)
FillCheckForm(c) ==
  /\ kind[c] = "Fill" /\ pc[c] = "checkForm"
  /\ CASE srcStat = "staterr" ->
            Return(c, "failed to check if form PDF file exists", fs)
       [] srcStat = "missing" -> Return(c, "form PDF file does not exists", fs)
       [] OTHER -> Goto(c, "lookPath") /\ fs' = fs
  /\ UNCHANGED <<log, deferred, GetFieldsVars, envVars, encVars, tmpName>>

\* exec.LookPath("pdftk")
FillLookPath(c) ==
  /\ kind[c] = "Fill" /\ pc[c] = "lookPath"
  /\ IF pdftkOnPath THEN Goto(c, "tempDir") /\ fs' = fs
     ELSE Return(c, "pdftk utility is not installed", fs)
  /\ UNCHANGED <<log, deferred, GetFieldsVars, envVars, encVars, tmpName>>

\* Whether the revision creates the metadata file between ioutil.TempDir and
\* the defer statement.
MetadataFirst(c) == variant = "meta" /\ Eff(c).RemoveMetadata

\* ioutil.TempDir("", "fillpdf-") and, unless the metadata file comes first,
\* the defer of os.RemoveAll(tmpDir).
FillTempDir(c) ==
  /\ kind[c] = "Fill" /\ pc[c] = "tempDir"
  /\ \/ \E n \in {x \in TmpNames : ~Exists(fs, TmpDirNamed(x))} :
          /\ tmpName' = [tmpName EXCEPT ![c] = n]
          /\ fs' = Write(fs, TmpDirNamed(n), File("dir", c, <<>>))
          /\ Goto(c, IF MetadataFirst(c) THEN "metadata" ELSE "createDef")
          /\ deferred' = [deferred EXCEPT ![c] = ~MetadataFirst(c)]
     \/ /\ Return(c, "failed to create temporary directory", fs)
        /\ UNCHANGED <<deferred, tmpName>>
  /\ UNCHANGED <<log, GetFieldsVars, envVars, encVars>>

DumpDataArgs == <<"dump_data">>

\* createMetadataFile(formPDFFile, tmpDir + "/metadata.tmp") and the return
\* on its error; then the defer of os.RemoveAll(tmpDir).  The file is created
\* first, then pdftk dump_data runs, then its output is written.
FillMetadata(c) ==
  /\ kind[c] = "Fill" /\ pc[c] = "metadata"
  /\ LET path == TmpFile(c, "metadata.tmp")
         made == Write(fs, path, File("metadata", c, <<>>))
     IN  \E outcome \in {"create", "pdftk", "write", "ok"} :
           CASE outcome = "create" ->
                  /\ Return(c, "failed to create metadata file", fs)
                  /\ UNCHANGED <<log, deferred>>
             [] outcome = "pdftk" ->
                  /\ Return(c, "failed to create metadata file", made)
                  /\ Logged(c, Event("pdftk", FALSE, DumpDataArgs))
                  /\ UNCHANGED deferred
             [] outcome = "write" ->
                  /\ Return(c, "failed to create metadata file", made)
                  /\ Logged(c, Event("pdftk", TRUE, DumpDataArgs))
                  /\ UNCHANGED deferred
             [] OTHER ->
                  /\ fs' = made
                  /\ Logged(c, Event("pdftk", TRUE, DumpDataArgs))
                  /\ deferred' = [deferred EXCEPT ![c] = TRUE]
                  /\ Goto(c, "createDef")
  /\ UNCHANGED <<GetFieldsVars, envVars, encVars, tmpName>>

\* The payload file: createXFDFFile or createFdfFile, and the return on its
\* error.
FillCreateDef(c) ==
  /\ kind[c] = "Fill" /\ pc[c] = "createDef"
  /\ \E order \in Orders(args[c].form), strict \in BOOLEAN, createOK \in BOOLEAN :
       LET res == IF UsesXFDF(c)
                    THEN createXFDFFile(args[c].form, order, createOK)
                    ELSE createFdfFile(FdfKind(variant), args[c].form, order,
                                       strict, createOK)
           made == IF res.created
                     THEN Write(fs, TmpFile(c, PayloadName(c)),
                                File(IF UsesXFDF(c) THEN "xfdf" ELSE "fdf", c,
                                     res.data))
                     ELSE fs
       IN  /\ Logged(c, Event("encode", res.err = "", <<PayloadName(c)>>))
           /\ IF res.err = "" THEN fs' = made /\ Goto(c, "pdftk")
              ELSE Return(c, IF UsesXFDF(c)
                               THEN "failed to create xfdf form file"
                               ELSE "failed to create fdf form data file", made)
  /\ UNCHANGED <<deferred, GetFieldsVars, envVars, encVars, tmpName>>

\* The arguments of the fill_form run after the form PDF's path.
FillFormArgs(c) ==
  IF variant = "bool"
    THEN <<"fill_form", "input.fdf", "output", "intermediate-output.pdf",
           "need_appearances">>
    ELSE <<"fill_form", PayloadName(c), "output", "output.pdf">>
         \o (IF Eff(c).Flatten THEN <<"flatten">> ELSE <<>>)

\* A pdftk run whose error is not looked at.
RunPdftk_ignoresError(c, a, out, next) ==
  \E ok \in BOOLEAN :
    /\ Logged(c, Event("pdftk", ok, a))
    /\ fs' = (IF ok THEN Write(fs, out, File("pdf", c, <<>>)) ELSE fs)
    /\ Goto(c, next)

\* One pdftk run in the temporary directory and the return on its error: on
\* success the file it writes exists and the call goes on at `next`.
RunPdftk(c, a, out, next) ==
  \E ok \in BOOLEAN :
    /\ Logged(c, Event("pdftk", ok, a))
    /\ IF ok THEN fs' = Write(fs, out, File("pdf", c, <<>>)) /\ Goto(c, next)
       ELSE Return(c, "pdftk error", fs)

\* pdftk <form> fill_form <payload> output <file> [flatten]
FillPdftk(c) ==
  /\ kind[c] = "Fill" /\ pc[c] = "pdftk"
  /\ RunPdftk(c, FillFormArgs(c),
              TmpFile(c, IF variant = "bool" THEN "intermediate-output.pdf"
                         ELSE "output.pdf"),
              IF variant = "bool" THEN "generateFdf"
              ELSE IF MetadataFirst(c) THEN "updateInfo" ELSE "checkDest")
  /\ UNCHANGED <<deferred, GetFieldsVars, envVars, encVars, tmpName>>

\* "bool" only: pdftk <intermediate> generate_FDF output exported.fdf
FillGenerateFdf(c) ==
  /\ kind[c] = "Fill" /\ pc[c] = "generateFdf"
  /\ RunPdftk(c, <<"generate_FDF", "output", "exported.fdf">>,
              TmpFile(c, "exported.fdf"), "flattenFdf")
  /\ UNCHANGED <<deferred, GetFieldsVars, envVars, encVars, tmpName>>

\* "bool" only: pdftk <intermediate> fill_form exported.fdf output
\* final-output.pdf flatten
FillFlattenFdf(c) ==
  /\ kind[c] = "Fill" /\ pc[c] = "flattenFdf"
  /\ RunPdftk(c, <<"fill_form", "exported.fdf", "output", "final-output.pdf",
                   "flatten">>,
              TmpFile(c, "final-output.pdf"), "checkDest")
  /\ UNCHANGED <<deferred, GetFieldsVars, envVars, encVars, tmpName>>

\* "meta" with RemoveMetadata: pdftk <output> update_info <metadata> output
\* <tmpDir + "output2.pdf">: no separator, so the file lies beside the
\* temporary directory, not in it.
FillUpdateInfo(c) ==
  /\ kind[c] = "Fill" /\ pc[c] = "updateInfo"
  /\ RunPdftk(c, <<"update_info", "metadata.tmp", "output", "output2.pdf">>,
              TmpBeside(c, "output2.pdf"), "checkDest")
  /\ UNCHANGED <<deferred, GetFieldsVars, envVars, encVars, tmpName>>

\* The destination check that never refuses.
Refuses_never(c, e) == FALSE

\* Whether the call refuses to go on: the destination exists and overwriting
\* is not asked for.
Refuses(c, e) == e /\ ~Eff(c).Overwrite

\* exists(destPDFFile) and the refusal to overwrite.  The log keeps what the
\* check found.
FillCheckDest(c) ==
  /\ kind[c] = "Fill" /\ pc[c] = "checkDest"
  /\ LET d == DestPath(args[c].dest)
         e == Exists(fs, d)
     IN  \E statOK \in BOOLEAN :
           /\ Logged(c, Event("stat", statOK,
                              <<IF ~statOK THEN "error"
                                ELSE IF e THEN "exists" ELSE "absent">>))
           /\ IF ~statOK
                THEN Return(c, "failed to check if destination PDF file exists", fs)
              ELSE IF Refuses(c, e)
                THEN Return(c, "destination PDF file already exists", fs)
              ELSE IF e THEN Goto(c, "remove") /\ fs' = fs
              ELSE Goto(c, "copy") /\ fs' = fs
  /\ UNCHANGED <<deferred, GetFieldsVars, envVars, encVars, tmpName>>

\* os.Remove(destPDFFile)
FillRemove(c) ==
  /\ kind[c] = "Fill" /\ pc[c] = "remove"
  /\ LET d == DestPath(args[c].dest)
     IN  \E ok \in {x \in BOOLEAN : x => Exists(fs, d)} :
           /\ Logged(c, Event("remove", ok, <<args[c].dest>>))
           /\ IF ok THEN fs' = Remove(fs, d) /\ Goto(c, "copy")
              ELSE Return(c, "failed to remove destination PDF file", fs)
  /\ UNCHANGED <<deferred, GetFieldsVars, envVars, encVars, tmpName>>

\* What copyFile(src, dst) leaves at dst: nothing new when os.Open or
\* os.Create fails, a created or truncated file with part of the source when
\* io.Copy fails, the whole source when Sync or Close fails or nothing does.
copyFile(f, src, dst, by, outcome) ==
  CASE outcome \in {"open", "create"} -> f
    [] outcome = "copy" -> Write(f, dst, File("partial", by, <<>>))
    [] OTHER -> Write(f, dst, f[src])

\* copyFile(outputFile, destPDFFile) and the final return.
FillCopy(c) ==
  /\ kind[c] = "Fill" /\ pc[c] = "copy"
  /\ LET src == OutputFile(c)
         outcomes == IF Exists(fs, src)
                       THEN {"open", "create", "copy", "sync", "ok"}
                       ELSE {"open"}
     IN  \E outcome \in outcomes :
           /\ Logged(c, Event("copy", outcome = "ok",
                              <<IF Exists(fs, DestPath(args[c].dest))
                                  THEN "exists" ELSE "absent">>))
           /\ Return(c, IF outcome = "ok" THEN "nil"
                        ELSE "failed to copy created output PDF to final destination",
                     copyFile(fs, src, DestPath(args[c].dest), c, outcome))
  /\ UNCHANGED <<deferred, GetFieldsVars, envVars, encVars, tmpName>>

(***************************************************************************)
(* GetFields                                                               *)
(***************************************************************************)

\* filepath.Abs(formPDFFile)
GetFieldsAbs(c) ==
  /\ kind[c] = "GetFields" /\ pc[c] = "gAbs"
  /\ \E ok \in BOOLEAN :
       IF ok THEN Goto(c, "gCheckForm") /\ fs' = fs
       ELSE Return(c, "failed to create the absolute path", fs)
  /\ UNCHANGED <<log, deferred, GetFieldsVars, envVars, encVars, tmpName>>

\* exists(formPDFFile)
GetFieldsCheckForm(c) ==
  /\ kind[c] = "GetFields" /\ pc[c] = "gCheckForm"
  /\ CASE srcStat = "staterr" ->
            Return(c, "failed to check if form PDF file exists", fs)
       [] srcStat = "missing" -> Return(c, "form PDF file does not exists", fs)
       [] OTHER -> Goto(c, "gLookPath") /\ fs' = fs
  /\ UNCHANGED <<log, deferred, GetFieldsVars, envVars, encVars, tmpName>>

\* exec.LookPath("pdftk")
GetFieldsLookPath(c) ==
  /\ kind[c] = "GetFields" /\ pc[c] = "gLookPath"
  /\ IF pdftkOnPath THEN Goto(c, "gRun") /\ fs' = fs
     ELSE Return(c, "pdftk utility is not installed", fs)
  /\ UNCHANGED <<log, deferred, GetFieldsVars, envVars, encVars, tmpName>>

\* runCommandWithResults("pdftk", formPDFFile, "dump_data_fields"), which
\* gives the tool's output or its error, and the parsing of the output.
GetFieldsRun(c) ==
  /\ kind[c] = "GetFields" /\ pc[c] = "gRun"
  /\ \/ /\ Logged(c, Event("pdftk", FALSE, <<"dump_data_fields">>))
        /\ Return(c, "pdftk error", fs)
        /\ UNCHANGED GetFieldsVars
     \/ \E d \in Dumps :
          /\ Logged(c, Event("pdftk", TRUE, <<"dump_data_fields">>))
          /\ dump' = [dump EXCEPT ![c] = d]
          /\ fields' = [fields EXCEPT ![c] = ParseFields(DumpText(d))]
          /\ Return(c, "nil", fs)
  /\ UNCHANGED <<deferred, envVars, encVars, tmpName>>

(***************************************************************************)
(* Specifications                                                          *)
(***************************************************************************)

FillStep(c) ==
  \/ FillAbs(c)
  \/ FillCheckForm(c)
  \/ FillLookPath(c)
  \/ FillTempDir(c)
  \/ FillMetadata(c)
  \/ FillCreateDef(c)
  \/ FillPdftk(c)
  \/ FillGenerateFdf(c)
  \/ FillFlattenFdf(c)
  \/ FillUpdateInfo(c)
  \/ FillCheckDest(c)
  \/ FillRemove(c)
  \/ FillCopy(c)

GetFieldsStep(c) ==
  \/ GetFieldsAbs(c)
  \/ GetFieldsCheckForm(c)
  \/ GetFieldsLookPath(c)
  \/ GetFieldsRun(c)

Step(c) == FillStep(c) \/ GetFieldsStep(c)

Next == \E c \in Calls : Step(c)

\* One call of Fill or GetFields, in any environment.
Spec == Init /\ [][Next]_vars

\* No call is made: the state of Fill and GetFields while an encoder runs.
\* Two calls of Fill running side by side, on one destination or on two, the
\* form file there and pdftk installed.  The first call fills in "Hello",
\* the second the euro sign.
F_hello == [k \in {N_field_1} |-> V_Hello]

ParOptions(v) == {o \in OptionsOf(v) : o.Flatten = (v # "bool") /\ ~o.UseXFDF}

ParArgs(v, d, f) ==
  {[supplied |-> TRUE, opts |-> o, dest |-> d, form |-> f] : o \in ParOptions(v)}

ParInit ==
  /\ variant \in Variants
  /\ srcStat = "present"
  /\ pdftkOnPath = TRUE
  /\ kind = [c \in Calls |-> "Fill"]
  /\ \E a1 \in ParArgs(variant, "d1", F_hello) :
       \E d \in Dests : \E a2 \in ParArgs(variant, d, F_euro) :
         args = [c \in Calls |-> IF c = "c1" THEN a1 ELSE a2]
  /\ fs \in {[q \in {DestPath(d) : d \in e} |-> OrigFile] : e \in SUBSET {"d1"}}
  /\ dest0 = [c \in Calls |-> At(fs, DestPath(args[c].dest))]
  /\ pc = [c \in Calls |-> "abs"]
  /\ ret = [c \in Calls |-> ""]
  /\ log = [c \in Calls |-> <<>>]
  /\ deferred = [c \in Calls |-> FALSE]
  /\ dump = [c \in Calls |-> NoDump]
  /\ fields = [c \in Calls |-> <<>>]
  /\ tmpName = [c \in Calls |-> ""]
  /\ EncUnused

ParNext == \E c \in Calls : FillStep(c)

SpecPar == ParInit /\ [][ParNext]_vars

NoCalls ==
  /\ variant = "xfdf" /\ srcStat = "present" /\ pdftkOnPath = TRUE
  /\ kind = [c \in Calls |-> "idle"]
  /\ args = [c \in Calls |-> IdleArgs]
  /\ dest0 = [c \in Calls |-> Absent]
  /\ pc = [c \in Calls |-> "idle"]
  /\ ret = [c \in Calls |-> ""]
  /\ fs = <<>>
  /\ log = [c \in Calls |-> <<>>]
  /\ deferred = [c \in Calls |-> FALSE]
  /\ dump = [c \in Calls |-> NoDump]
  /\ fields = [c \in Calls |-> <<>>]
  /\ tmpName = [c \in Calls |-> ""]

EncInit == EncStart /\ NoCalls

EncNext == EncStep /\ UNCHANGED <<envVars, runVars>>

\* An encoder is handed a form.
SpecEnc == EncInit /\ [][EncNext]_vars

(***************************************************************************)
(* Properties of Fill                                                      *)
(***************************************************************************)

FillCalls == {c \in Calls : kind[c] = "Fill"}
Returned(c) == ret[c] # ""
Ops(c, op) == {i \in 1..Len(log[c]) : log[c][i].op = op}
DestOf(c) == DestPath(args[c].dest)
ErrAbs == "failed to create the absolute path"
ErrNoForm == "form PDF file does not exists"
ErrNoPdftk == "pdftk utility is not installed"
ErrDestExists == "destination PDF file already exists"

\* The destination check of call c found the destination present.
FoundDest(c) ==
  \E i \in Ops(c, "stat") : log[c][i].ok /\ log[c][i].args = <<"exists">>

\* C1: a Fill call whose effective overwrite setting is false and whose
\* destination check finds the destination present returns the "destination
\* PDF file already exists" error and leaves the destination with the bytes it
\* had before the call, in every revision of Fill.
C1_RefusesOverwrite ==
  \A c \in FillCalls :
    (FoundDest(c) /\ ~Eff(c).Overwrite) =>
      /\ Returned(c) /\ ret[c] = ErrDestExists
      /\ dest0[c] # Absent
      /\ At(fs, DestOf(c)) = dest0[c]
      /\ Ops(c, "remove") = {} /\ Ops(c, "copy") = {}

\* A call without the overwrite flag has met its destination and refused.
C1_Witness ==
  \E c \in FillCalls :
    /\ variant = "bool" /\ ~args[c].supplied
    /\ FoundDest(c) /\ ret[c] = ErrDestExists
    /\ At(fs, DestOf(c)) = OrigFile

\* C2: when a Fill call has returned, with or without an error, no file or
\* directory it made for its temporary data is left, the metadata file and
\* the second output of RemoveMetadata included.
C2_TempRemoved ==
  \A c \in FillCalls : Returned(c) => TempPaths(fs, c) = {}

\* C3: with the path resolved, Fill and GetFields return "form PDF file does
\* not exists" when the source PDF is missing, whether or not pdftk is
\* installed, and "pdftk utility is not installed" when the source is there
\* and pdftk is not; on both returns no process was started, no temporary
\* file or directory was made and the destination is as it was.
C3_ChecksFirst ==
  \A c \in Calls :
    (kind[c] \in {"Fill", "GetFields"} /\ Returned(c) /\ ret[c] # ErrAbs) =>
      /\ srcStat = "missing" => ret[c] = ErrNoForm
      /\ (srcStat = "present" /\ ~pdftkOnPath) => ret[c] = ErrNoPdftk
      /\ ret[c] \in {ErrNoForm, ErrNoPdftk} =>
           /\ log[c] = <<>>
           /\ TempPaths(fs, c) = {}
           /\ ~deferred[c]
           /\ kind[c] = "Fill" => At(fs, DestOf(c)) = dest0[c]

\* A Fill call with neither the source nor pdftk has returned.
C3_Witness ==
  \E c \in FillCalls :
    /\ srcStat = "missing" /\ ~pdftkOnPath
    /\ ret[c] = ErrNoForm
    /\ log[c] = <<>> /\ TempPaths(fs, c) = {}

\* C4: a Fill call given no options flattens, removes no metadata and writes
\* its payload as FDF: it makes no XFDF and no metadata file, and once its
\* pdftk runs are done one of them was a fill_form with flatten.
C4_Defaults ==
  \A c \in FillCalls :
    ~args[c].supplied =>
      /\ \A p \in TempPaths(fs, c) : fs[p].kind \notin {"xfdf", "metadata"}
      /\ \A i \in Ops(c, "encode") : log[c][i].args # <<"data.xfdf">>
      /\ \A i \in Ops(c, "pdftk") : log[c][i].args[1] \notin {"dump_data", "update_info"}
      /\ Ops(c, "stat") # {} =>
           \E i \in Ops(c, "pdftk") :
             /\ log[c][i].args[1] = "fill_form"
             /\ log[c][i].args[Len(log[c][i].args)] = "flatten"

\* The place of an operation in the order the call is to keep.
Rank(op) ==
  CASE op = "encode" -> 1
    [] op = "pdftk" -> 2
    [] op = "stat" -> 3
    [] op = "remove" -> 4
    [] op = "copy" -> 5

\* The pdftk runs a call makes when none fails.
PdftkRuns(c) ==
  IF variant = "bool" THEN 3
  ELSE IF MetadataFirst(c) THEN 3
  ELSE 1

\* The events of `l` are in the order encode, pdftk runs, destination check,
\* removal, copy, each after the success of all before it, with one encode,
\* one check, one removal and one copy at most.
InOrder(l) ==
  /\ \A i \in 1..Len(l) : \A j \in (i + 1)..Len(l) :
       /\ l[i].ok
       /\ Rank(l[i].op) <= Rank(l[j].op)
       /\ Rank(l[i].op) = Rank(l[j].op) => l[i].op = "pdftk"
  /\ l # <<>> => l[1].op = "encode"

\* What the order means for the destination of call c: it is checked only
\* after every pdftk run of the call succeeded, removed only when it was
\* found and overwriting is on, and neither removed nor written before.
DestGuarded(c) ==
  /\ Ops(c, "stat") # {} =>
       /\ Cardinality(Ops(c, "pdftk")) = PdftkRuns(c)
       /\ \A i \in Ops(c, "pdftk") \cup Ops(c, "encode") : log[c][i].ok
  /\ Ops(c, "remove") # {} => FoundDest(c) /\ Eff(c).Overwrite
  /\ Ops(c, "copy") # {} => Ops(c, "stat") # {}
  /\ (Ops(c, "remove") = {} /\ Ops(c, "copy") = {}) =>
       At(fs, DestOf(c)) = dest0[c]

\* C5 as stated: a Fill call encodes the payload, then makes every pdftk
\* run, then checks the destination, then removes it (if it was found and
\* overwriting is on), then copies the result, each step only after the
\* ones before it succeeded; so a failed encode or pdftk run leaves the
\* destination neither removed nor written.
C5_StrictOrder ==
  \A c \in FillCalls : InOrder(log[c]) /\ DestGuarded(c)

\* The log of call c without a leading pdftk dump_data, the run that
\* createMetadataFile makes.
AfterDump(c) ==
  IF log[c] # <<>> /\ log[c][1].op = "pdftk" /\ log[c][1].args = DumpDataArgs
    THEN [ok |-> log[c][1].ok, rest |-> Tail(log[c])]
    ELSE [ok |-> TRUE, rest |-> log[c]]

\* C5 amended: with RemoveMetadata the pdftk dump_data run comes first, before
\* the payload is encoded, and nothing follows it when it fails; the rest of
\* the call keeps the order encode, pdftk runs (fill_form and after),
\* destination check, removal, copy, and the destination is guarded as stated.
C5_OrderAfterDump ==
  \A c \in FillCalls :
    /\ AfterDump(c).ok \/ AfterDump(c).rest = <<>>
    /\ InOrder(AfterDump(c).rest)
    /\ (log[c] # <<>> /\ log[c][1].op = "pdftk") => MetadataFirst(c)
    /\ DestGuarded(c)

\* A call with RemoveMetadata has run to its end over a present destination:
\* dump_data, encode, fill_form, update_info, check, removal, copy.
C5_Witness ==
  \E c \in FillCalls :
    /\ MetadataFirst(c) /\ ret[c] = "nil"
    /\ Len(log[c]) = 7
    /\ log[c][1].args = DumpDataArgs /\ log[c][2].op = "encode"
    /\ log[c][6].op = "remove" /\ log[c][7].op = "copy"

(***************************************************************************)
(* Properties of GetFields                                                 *)
(***************************************************************************)

\* The blocks of a dump given as lines: the runs of lines between the
\* separator lines.
RECURSIVE BlocksOf(_)
BlocksOf(lines) ==
  LET seps == {i \in 1..Len(lines) : lines[i] = L_sep}
  IN  IF seps = {} THEN <<lines>>
      ELSE LET i == CHOOSE x \in seps : \A y \in seps : x <= y
           IN  <<SubSeq(lines, 1, i - 1)>>
               \o BlocksOf(SubSeq(lines, i + 1, Len(lines)))

KeptBlocks(lines) == SelectSeq(BlocksOf(lines), LAMBDA b : Len(b) >= 3)
HasLine(b, l) == \E i \in 1..Len(b) : b[i] = l
Parsed(c) == kind[c] = "GetFields" /\ ret[c] = "nil"

\* C10: GetFields over a dump whose lines all end in a newline gives one
\* descriptor for each block of 3 lines or more, in order, and none for a
\* block of fewer (of 2 lines in particular); the descriptor of a block has
\* the type, name and flags of the block's FieldType, FieldName and
\* FieldFlags lines whatever other lines the block holds.
C10_BlockRule ==
  \A c \in Calls :
    (Parsed(c) /\ dump[c].nl) =>
      LET kept == KeptBlocks(dump[c].lines)
      IN  /\ Len(fields[c]) = Len(kept)
          /\ \A i \in 1..Len(kept) :
               /\ HasLine(kept[i], L_type) => fields[c][i].Type = B(<<"t", "e", "x", "t">>)
               /\ HasLine(kept[i], L_name) =>
                    fields[c][i].Name = N_field_1
               /\ HasLine(kept[i], L_flags) => fields[c][i].Flags = B(<<"0">>)

\* The blocks of a dump text that the parser keeps, in the order of the text.
TextBlocks(text) == Split(text, L_sep \o LF)
RetainedBlocks(text) == SelectSeq(TextBlocks(text), LAMBDA b : ParseBlock(b) # <<>>)

\* A line cut at its first ": ": the key before it and the whole remainder
\* after it; no key when the line holds no ": ".
ColonSpace == B(<<":", " ">>)
HasKey(line) == Contains(line, ColonSpace)
KeyOf(line) == SubSeq(line, 1, IndexFrom(line, ColonSpace, 1) - 1)
RestOf(line) ==
  SubSeq(line, IndexFrom(line, ColonSpace, 1) + Len(ColonSpace), Len(line))

\* The remainder of the last line of `lines` whose key is `key`, empty when
\* no line has the key.
ValueFor(lines, key) ==
  LET hits == {i \in 1..Len(lines) : HasKey(lines[i]) /\ KeyOf(lines[i]) = key}
  IN  IF hits = {} THEN <<>>
      ELSE RestOf(lines[CHOOSE i \in hits : \A j \in hits : j <= i])

\* What descriptor i of call c holds for a key.
FieldFor(f, key) ==
  CASE key = K_FieldType -> f.Type
    [] key = K_FieldName -> f.Name
    [] key = K_FieldNameAlt -> f.AltName
    [] key = K_FieldFlags -> f.Flags

Verbatim(key, v) == IF key = K_FieldType THEN ToLower(v) ELSE v
FieldKeys == {K_FieldType, K_FieldName, K_FieldNameAlt, K_FieldFlags}
AltRemainder == B(<<"D", "a", "t", "e", ":", " ", "s", "t", "a", "r", "t">>)

\* C11: the parser cuts every line at its first ": ": in each block it keeps,
\* every line with a recognized key before its first ": " sets the
\* descriptor's field to the whole remainder (the last such line counts), so
\* "FieldNameAlt: Date: start" gives the alternate name "Date: start"; lines
\* with no ": " change nothing and the call still returns without an error.
C11_FirstSplit ==
  \A c \in Calls :
    Parsed(c) =>
      LET kept == RetainedBlocks(DumpText(dump[c]))
      IN  \A i \in 1..Len(kept) :
            i <= Len(fields[c]) =>
              LET lines == Split(kept[i], LF)
              IN  /\ \A k \in FieldKeys :
                       FieldFor(fields[c][i], k) = Verbatim(k, ValueFor(lines, k))
                  /\ (\E j \in 1..Len(lines) : lines[j] = L_alt) =>
                       fields[c][i].AltName = AltRemainder

\* The dump of the example and its descriptor.
ExampleDump == [lines |-> <<L_type, L_name, L_flags, L_sep>>, nl |-> TRUE]
ExampleField ==
  [Type |-> B(<<"t", "e", "x", "t">>), Name |-> N_field_1,
   AltName |-> <<>>, Flags |-> B(<<"0">>)]

\* The descriptor a block stands for: type lower-cased, name, alternate name
\* and flags as they are written.
DescriptorOf(block) ==
  LET lines == Split(block, LF)
  IN  [Type |-> ToLower(ValueFor(lines, K_FieldType)),
       Name |-> ValueFor(lines, K_FieldName),
       AltName |-> ValueFor(lines, K_FieldNameAlt),
       Flags |-> ValueFor(lines, K_FieldFlags)]

\* C12: GetFields returns as many descriptors as the parser keeps blocks, the
\* i-th being the descriptor of the i-th kept block, in the order of the
\* text; parsing the same text again gives the same sequence; the dump
\* "FieldType: Text\nFieldName: field_1\nFieldFlags: 0\n---\n" gives the one
\* descriptor {type text, name field_1, flags 0, no alternate name}.
C12_OrderedDescriptors ==
  \A c \in Calls :
    Parsed(c) =>
      LET text == DumpText(dump[c])
          kept == RetainedBlocks(text)
      IN  /\ Len(fields[c]) = Len(kept)
          /\ \A i \in 1..Len(kept) : fields[c][i] = DescriptorOf(kept[i])
          /\ ParseFields(text) = fields[c]
          /\ dump[c] = ExampleDump => fields[c] = <<ExampleField>>

\* C14: a Fill call that has returned an error leaves the destination path as
\* it was before the call: the file that was there with its bytes, or no file
\* when there was none, also when the final copy fails after the removal of
\* a destination that was found.
C14_DestRestored ==
  \A c \in FillCalls :
    (Returned(c) /\ ret[c] # "nil") => At(fs, DestOf(c)) = dest0[c]

\* The effective options of call c as the caller's struct taken whole: the
\* struct when one is given, the defaults of the revision otherwise.
Whole(c) ==
  IF args[c].supplied THEN args[c].opts
  ELSE IF variant = "xfdf" THEN defaultOptions_xfdf ELSE defaultOptions_meta

FillFormRuns(c) ==
  {i \in Ops(c, "pdftk") : log[c][i].args[1] = "fill_form"}
WithFlatten(e) == e.args[Len(e.args)] = "flatten"

\* C16: in the revisions of Fill that take Options, the struct a caller gives
\* replaces the defaults whole: pdftk fill_form gets `flatten` exactly when
\* the Flatten field of that struct (of the defaults, with no struct) is
\* true, and a destination that is found is refused exactly when its
\* Overwrite field is false.
C16_OptionsWhole ==
  \A c \in FillCalls :
    variant # "bool" =>
      /\ \A i \in FillFormRuns(c) : WithFlatten(log[c][i]) <=> Whole(c).Flatten
      /\ (FoundDest(c) /\ Returned(c)) =>
           ((ret[c] = ErrDestExists) <=> ~Whole(c).Overwrite)

\* A call with Options{Overwrite: true} has run fill_form without flatten
\* and gone on over the destination it found.
C16_Witness ==
  \E c \in FillCalls :
    /\ variant = "xfdf" /\ args[c].supplied
    /\ args[c].opts = Options(TRUE, FALSE, FALSE, FALSE)
    /\ FoundDest(c) /\ ret[c] = "nil"
    /\ \E i \in FillFormRuns(c) : ~WithFlatten(log[c][i])

(***************************************************************************)
(* Properties of Fill calls running side by side                           *)
(***************************************************************************)

\* The call has its temporary directory and has not returned.
Working(c) ==
  kind[c] = "Fill" /\
  pc[c] \in {"metadata", "createDef", "pdftk", "generateFdf", "flattenFdf",
             "updateInfo", "checkDest", "remove", "copy"}

\* The scratch files the rest of call c reads.
Needs(c) ==
  (IF pc[c] \in {"metadata", "createDef"} THEN {TmpDir(c)} ELSE {})
  \cup (IF pc[c] = "pdftk" THEN {TmpDir(c), TmpFile(c, PayloadName(c))} ELSE {})
  \cup (IF pc[c] \in {"createDef", "pdftk", "updateInfo"} /\ MetadataFirst(c)
          THEN {TmpFile(c, "metadata.tmp")} ELSE {})
  \cup (IF pc[c] \in {"generateFdf", "flattenFdf"}
          THEN {TmpFile(c, "intermediate-output.pdf")} ELSE {})
  \cup (IF pc[c] = "flattenFdf" THEN {TmpFile(c, "exported.fdf")} ELSE {})
  \cup (IF pc[c] = "updateInfo" THEN {TmpFile(c, "output.pdf")} ELSE {})
  \cup (IF pc[c] \in {"checkDest", "remove", "copy"} THEN {OutputFile(c)} ELSE {})

\* The paths below and beside the temporary directory of call c.
Scratch(c) ==
  {TmpDir(c)}
  \cup {TmpFile(c, n) : n \in {"data.fdf", "data.xfdf", "input.fdf",
                               "metadata.tmp", "output.pdf", "exported.fdf",
                               "intermediate-output.pdf", "final-output.pdf"}}
  \cup {TmpBeside(c, "output2.pdf")}

\* While both calls work no scratch path of one is a scratch path of the
\* other; every file a call still reads is there and is the one the call
\* wrote itself; a call that returns nil leaves at its destination the
\* output it made itself.
Isolated(c, o) ==
  /\ (Working(c) /\ Working(o)) => Scratch(c) \cap Scratch(o) = {}
  /\ Working(c) => \A p \in Needs(c) : Exists(fs, p) /\ fs[p].by = c
  /\ ret[c] = "nil" => At(fs, DestOf(c)) = File("pdf", c, <<>>)

\* Everything call c has written, its destination aside, lies in the
\* temporary directory the call made.
InOwnArea(c) ==
  \A p \in DOMAIN fs :
    (fs[p].by = c /\ p # DestOf(c)) => (p[1] = "tmpdir" /\ p[2] = tmpName[c])

\* C13: of two Fill calls with different destinations that run side by side,
\* in any interleaving, each writes its scratch files only in its own
\* temporary directory, no scratch path of one is a scratch path of the
\* other, no cleanup takes a file the other still reads, and each
\* destination gets the output of its own call.
C13_OwnArea ==
  \A c \in FillCalls : \A o \in FillCalls \ {c} :
    args[c].dest # args[o].dest => (InOwnArea(c) /\ Isolated(c, o))

\* The same without the place of the scratch files.
IsolatedCalls ==
  \A c \in FillCalls : \A o \in FillCalls \ {c} :
    args[c].dest # args[o].dest => Isolated(c, o)

\* C15: a Fill call without overwrite never copies over a destination that
\* is there at the moment of the copy, whatever runs beside it; of two such
\* calls on one destination that was absent at most one returns nil.
C15_NoClobber ==
  \A c \in FillCalls :
    ~Eff(c).Overwrite =>
      /\ \A i \in Ops(c, "copy") : log[c][i].args = <<"absent">>
      /\ \A o \in FillCalls \ {c} :
           (args[o].dest = args[c].dest /\ ~Eff(o).Overwrite /\ dest0[c] = Absent)
             => ~(ret[c] = "nil" /\ ret[o] = "nil")

=============================================================================
